---------------------------- MODULE Spec2Model ----------------------------
(***************************************************************************)
(* Model of the subprocess execution layer of obsidian-claude-code-skills *)
(* (src/src/executor.ts) together with the settings it reads               *)
(* (src/src/settings.ts).                                                  *)
(*                                                                         *)
(* Strings are sequences of symbols.  A path is the sequence of its        *)
(* segments; a working directory string and a stdout text are sequences   *)
(* of characters, where " " is a blank and "\n" a line feed.               *)
(***************************************************************************)
EXTENDS Integers, Sequences, FiniteSets, TLC

(* ------------------------------ bounds -------------------------------- *)

\* stdout "data" events one child process delivers
MaxData == 1
\* calls a caller makes of one cancel handle
MaxCancel == 2
\* stdout "data" events one child process delivers in StreamSpec
MaxStream == 3

(* ----------------------------- strings -------------------------------- *)

Null == "<null>"

RECURSIVE TrimStart(_)
\* String.prototype.trim, leading part
TrimStart(s) ==
    IF s # <<>> /\ Head(s) = " " THEN TrimStart(Tail(s)) ELSE s

RECURSIVE TrimEnd(_)
\* String.prototype.trim, trailing part
TrimEnd(s) ==
    IF s # <<>> /\ s[Len(s)] = " " THEN TrimEnd(SubSeq(s, 1, Len(s) - 1)) ELSE s

\* String.prototype.trim
Trim(s) == TrimEnd(TrimStart(s))

\* path.basename: the last segment of the path, "" for the empty path
Basename(p) == IF p = <<>> THEN "" ELSE p[Len(p)]

\* Array.prototype.includes
Includes(arr, x) == \E k \in 1..Len(arr) : arr[k] = x

(* --------------------------- file system ------------------------------ *)

\* the paths fs.accessSync(p, X_OK) accepts
FsExecutable ==
    { <<"usr", "bin", "claude">>, <<"opt", "claude-code">>, <<"tmp", "evil">> }

\* binary paths a user can have configured
BinPaths ==
    FsExecutable \cup { <<>>, <<"home", "claude">> }

\* fs.statSync(dir): what it returns ("dir", "file") or the code it throws
FsStat(dir) ==
    CASE dir = <<"/", "p">> -> "dir"
      [] dir = <<"/", "f">> -> "file"
      [] dir = <<"/", "n">> -> "EACCES"
      [] OTHER -> "ENOENT"

\* working directory strings a user can have configured
WorkDirs ==
    { <<>>, <<" ", " ">>, <<"/", "p">>, <<"/", "f">>, <<"/", "n">>, <<"/", "m">> }

\* timeouts (ms) a user can have configured
Timeouts == { 1000, 2500 }

(* ------------------------ executor.ts: validatePaths ------------------ *)

VALID_BINARY_NAMES == << "claude", "claude-code" >>

NoError == [kind |-> "none", detail |-> <<>>, secs |-> 0, millis |-> 0]

\* new Error(message): the message kind and the value interpolated in it
Err(kind, detail) == [kind |-> kind, detail |-> detail, secs |-> 0, millis |-> 0]

\* the working-directory block of validatePaths, reached after both binary
\* checks passed; probes lists the fs calls made so far
ValidateWorkDir(settings, probes) ==
    IF Trim(settings.workingDirectory) # <<>>
    THEN LET stat == FsStat(settings.workingDirectory)
             done == Append(probes, "statSync")
         IN  CASE stat = "dir"    -> [error |-> NoError, probes |-> done]
               [] stat = "file"   ->
                    [error |-> Err("Working directory is not a directory",
                                   settings.workingDirectory),
                     probes |-> done]
               [] stat = "ENOENT" ->
                    [error |-> Err("Working directory does not exist",
                                   settings.workingDirectory),
                     probes |-> done]
               [] OTHER           ->
                    [error |-> Err(stat, settings.workingDirectory),
                     probes |-> done]
    ELSE [error |-> NoError, probes |-> probes]

\* validatePaths without the allow-list of binary names
validatePathsNoAllowList(settings) ==
    IF settings.claudeBinPath \notin FsExecutable
    THEN [error |-> Err("Binary not found or not executable",
                        settings.claudeBinPath),
          probes |-> <<"accessSync">>]
    ELSE ValidateWorkDir(settings, <<"accessSync">>)

\* validatePaths with the executable check made before the name check
validatePathsExecFirst(settings) ==
    LET name == Basename(settings.claudeBinPath)
    IN  IF settings.claudeBinPath \notin FsExecutable
        THEN [error |-> Err("Binary not found or not executable",
                            settings.claudeBinPath),
              probes |-> <<"accessSync">>]
        ELSE IF ~Includes(VALID_BINARY_NAMES, name)
             THEN [error |-> Err("Unexpected binary name", <<name>>),
                   probes |-> <<"accessSync">>]
             ELSE ValidateWorkDir(settings, <<"accessSync">>)

\* validatePaths: the error it throws (NoError when it returns) and the fs
\* calls it made, in order
validatePaths(settings) ==
    LET name == Basename(settings.claudeBinPath)
    IN  IF ~Includes(VALID_BINARY_NAMES, name)
        THEN [error |-> Err("Unexpected binary name", <<name>>), probes |-> <<>>]
        ELSE IF settings.claudeBinPath \notin FsExecutable
             THEN [error |-> Err("Binary not found or not executable",
                                 settings.claudeBinPath),
                   probes |-> <<"accessSync">>]
             ELSE ValidateWorkDir(settings, <<"accessSync">>)

(* ------------------------- subprocess output -------------------------- *)

\* a decoded line of stdout, flattened: Null marks a field that is absent or
\* is no string; hasEvent / hasDelta say that event.event / event.event.delta
\* is an object
Event(type, hasEvent, itype, hasDelta, dtype, text, result, session) ==
    [type |-> type, hasEvent |-> hasEvent, itype |-> itype, hasDelta |-> hasDelta,
     dtype |-> dtype, text |-> text, result |-> result, session_id |-> session]

\* {"type":"stream_event","event":{"type":"content_block_delta",
\*   "delta":{"type":"text_delta","text":t}}}
TextDelta(t) ==
    Event("stream_event", TRUE, "content_block_delta", TRUE, "text_delta", t, Null, Null)

\* {"type":"result","result":r,"session_id":s}
ResultEvent(r, s) == Event("result", FALSE, Null, FALSE, Null, Null, r, s)

\* {"type":"system"}: an event of another type
OtherEvent == Event("system", FALSE, Null, FALSE, Null, Null, Null, Null)

\* null: the JSON document "null"; reading a property of it throws a
\* TypeError
NullValue == Event(Null, FALSE, Null, FALSE, Null, Null, Null, Null)

\* the lines of the model that are JSON documents; on every other line
\* JSON.parse throws a SyntaxError
JsonDocuments ==
    { <<"d", "1">>, <<"d", "2">>, <<"d", "0">>, <<"d", "e">>,
      <<"d", "U+FFFD", "U+FFFD">>, <<"r", "1">>, <<"r", "2">>, <<"r", "0">>,
      <<"o">>, <<"n">> }

\* JSON.parse(line) for a line that is a JSON document
JSONParse(line) ==
    CASE line = <<"d", "1">> -> TextDelta("t1")
      [] line = <<"d", "2">> -> TextDelta("t2")
      [] line = <<"d", "0">> -> TextDelta("")
      [] line = <<"d", "e">> -> TextDelta("e-acute")
      [] line = <<"d", "U+FFFD", "U+FFFD">> -> TextDelta("U+FFFD U+FFFD")
      [] line = <<"r", "1">> -> ResultEvent("R1", "s1")
      [] line = <<"r", "2">> -> ResultEvent("R2", "s2")
      [] line = <<"r", "0">> -> ResultEvent(Null, Null)
      [] line = <<"n">>      -> NullValue
      [] OTHER               -> OtherEvent

RECURSIVE Split(_)
\* String.prototype.split("\n"): the segments between line feeds, at least one
Split(s) ==
    IF \E k \in 1..Len(s) : s[k] = "\n"
    THEN LET k == CHOOSE j \in 1..Len(s) :
                     s[j] = "\n" /\ \A h \in 1..(j - 1) : s[h] # "\n"
         IN  <<SubSeq(s, 1, k - 1)>> \o Split(SubSeq(s, k + 1, Len(s)))
    ELSE <<s>>

RECURSIVE Decode(_)
\* rawChunk.toString("utf8"): a byte below 0x80 is its character, the bytes
\* C3 A9 together are the character e-acute (written e), and a byte of an
\* incomplete sequence becomes the replacement character U+FFFD
Decode(bytes) ==
    IF bytes = <<>> THEN <<>>
    ELSE IF Head(bytes) = "C3" /\ Len(bytes) > 1 /\ bytes[2] = "A9"
         THEN <<"e">> \o Decode(Tail(Tail(bytes)))
         ELSE IF Head(bytes) \in {"C3", "A9"}
              THEN <<"U+FFFD">> \o Decode(Tail(bytes))
              ELSE <<Head(bytes)>> \o Decode(Tail(bytes))

\* the stdout chunks a "data" event can carry
StdoutChunks ==
    { <<"d", "1", "\n">>, <<"d">>, <<"1", "\n", "r", "1", "\n">>, <<"x", "\n", "r", "2">> }

\* the stdout chunks a "data" event can carry in StreamSpec: whole lines,
\* parts of a line, a lone line feed, two lines at once
StreamChunks ==
    { <<"d", "1", "\n">>, <<"d">>, <<"1", "\n">>, <<"\n">>, <<"d", "2">>,
      <<"r", "1", "\n">>, <<"r", "2", "\n">>, <<"r", "0", "\n">>,
      <<"d", "0", "\n">>, <<" ", "\n">>, <<"n", "\n">>,
      <<"x", "\n", "d", "2", "\n">>, <<"n", "\n", "d", "2", "\n">>,
      <<"o", "\n", "r">>,
      <<"d", "C3", "A9", "\n">>, <<"d", "C3">>, <<"A9", "\n">> }

(* ------------------- executor.ts: runWithSkillStreaming --------------- *)

\* one entry of an invocation's observable history: a callback it made
\* (onChunk, onDone, onError), a proc.kill() it made, or a call of its
\* cancel handle ("cancel")
Step(op, text, session, err) == [op |-> op, text |-> text, session |-> session, err |-> err]

OnChunk(t)   == Step("onChunk", t, Null, NoError)
OnDone(r, s) == Step("onDone", r, s, NoError)
OnError(e)   == Step("onError", Null, Null, e)
ProcKill     == Step("proc.kill", Null, Null, NoError)
CancelCall   == Step("cancel", Null, Null, NoError)

\* new Error(`Claude timed out after ${settings.timeout / 1000}s`): the
\* quotient is printed as secs plus millis thousandths
TimeoutError(settings) ==
    [kind |-> "Claude timed out after", detail |-> <<>>,
     secs |-> settings.timeout \div 1000, millis |-> settings.timeout % 1000]

\* the arguments of one call: skillId and sessionId are a string or Null,
\* text is the user's text
Request(skillId, text, sessionId) ==
    [skillId |-> skillId, text |-> text, sessionId |-> sessionId]

\* a string or null that JavaScript takes as true
Truthy(x) == x # Null /\ x # ""

\* String(n) of a budget, held in hundredths of a dollar
NumberString(n) ==
    CASE n = 0   -> "0"
      [] n = 25  -> "0.25"
      [] n = 50  -> "0.5"
      [] n = 100 -> "1"
      [] n = 125 -> "1.25"

\* the skill ids, texts and session tokens a caller passes
SkillIds == {Null, "", "summarize"}
Texts == {<<"h", "i">>, <<"\n", "h">>}
SessionIds == {Null, "", "s1"}
Requests ==
    {Request(k, t, s) : k \in SkillIds, t \in Texts, s \in SessionIds}

\* the call the lifecycle specification makes
DefaultRequest == Request("summarize", <<"h", "i">>, Null)

\* the caps a user can have stored, in hundredths of a dollar
Budgets == {0, 25, 100}

\* the exit codes of the child
ExitCodes == {0, 1}

\* the machine the plugin runs on: process.platform and the paths that
\* fs.accessSync(p, X_OK) accepts among the wrapper binaries
Host(platform, executable) == [platform |-> platform, executable |-> executable]
Hosts ==
    {Host(p, x) : p \in {"linux", "darwin", "win32"},
                  x \in SUBSET {"/usr/bin/systemd-run", "/usr/bin/sandbox-exec"}}

\* the string a configured binary path is
PathString(path) ==
    CASE path = <<"usr", "bin", "claude">> -> "/usr/bin/claude"
      [] path = <<"opt", "claude-code">>   -> "/opt/claude-code"
      [] path = <<"tmp", "evil">>          -> "/tmp/evil"
      [] path = <<"home", "claude">>       -> "/home/claude"
      [] OTHER                             -> ""

\* the Apple Sandbox profile, its lines joined by blanks
SandboxProfile ==
    "(version 1) (deny default) (allow process-exec*) (allow process-fork) (allow signal) (allow sysctl-read) (allow file-read*) (allow file-write-data (literal \"/dev/null\")) (deny network*)"

\* a command and its arguments
SpawnTarget(command, args) == [command |-> command, args |-> args]

\* buildIsolatedSpawn wrapping on linux without probing systemd-run
buildIsolatedSpawnNoProbe(host, claudeBin, claudeArgs) ==
    IF host.platform = "linux"
    THEN SpawnTarget("/usr/bin/systemd-run",
                     <<"--scope", "--user", "--quiet", "-p", "IPAddressDeny=any",
                       "--", claudeBin>> \o claudeArgs)
    ELSE IF host.platform = "darwin" /\ "/usr/bin/sandbox-exec" \in host.executable
         THEN SpawnTarget("/usr/bin/sandbox-exec",
                          <<"-p", SandboxProfile, "--", claudeBin>> \o claudeArgs)
         ELSE SpawnTarget(claudeBin, claudeArgs)

\* buildIsolatedSpawn(claudeBin, claudeArgs) on host
buildIsolatedSpawn(host, claudeBin, claudeArgs) ==
    IF host.platform = "linux" /\ "/usr/bin/systemd-run" \in host.executable
    THEN SpawnTarget("/usr/bin/systemd-run",
                     <<"--scope", "--user", "--quiet", "-p", "IPAddressDeny=any",
                       "--", claudeBin>> \o claudeArgs)
    ELSE IF host.platform = "darwin" /\ "/usr/bin/sandbox-exec" \in host.executable
         THEN SpawnTarget("/usr/bin/sandbox-exec",
                          <<"-p", SandboxProfile, "--", claudeBin>> \o claudeArgs)
         ELSE SpawnTarget(claudeBin, claudeArgs)

\* an invocation slot before runWithSkillStreaming is called for it
Idle ==
    [phase |-> "idle", killed |-> FALSE, timer |-> "none", delay |-> 0,
     proc |-> "none", signals |-> 0, errored |-> FALSE, reads |-> 0,
     buffer |-> <<>>, finalResult |-> "", capturedSessionId |-> Null,
     trace |-> <<>>, probes |-> <<>>,
     received |-> <<>>, parsed |-> <<>>, uncaught |-> FALSE, exitCode |-> -1,
     request |-> Request(Null, <<>>, Null), args |-> <<>>, stdin |-> <<>>]

\* a clearTimeout that leaves a pending timer armed
ClearTimeoutLeavesArmed(st) == st

\* clearTimeout(timeoutId): disarms the timer when it is still pending
ClearTimeout(st) == [st EXCEPT !.timer = IF @ = "armed" THEN "cleared" ELSE @]

\* proc.kill(): the call is recorded; the signal reaches the child only while
\* the ChildProcess still has a running child
KillProc(st) ==
    [st EXCEPT !.trace = Append(@, ProcKill),
               !.signals = IF st.proc = "running" THEN @ + 1 ELSE @]

\* the message without the blank line between the skill line and the text
MessageNoBlankLine(skillId, text) ==
    IF Truthy(skillId) THEN <<"/", skillId, "\n">> \o text ELSE text

\* const message = skillId ? `/${skillId}\n\n${text}` : text
Message(skillId, text) ==
    IF Truthy(skillId) THEN <<"/", skillId, "\n", "\n">> \o text ELSE text

\* the flags every invocation passes
FixedArgs ==
    <<"--print", "--output-format", "stream-json", "--include-partial-messages",
      "--verbose", "--allowedTools", "Skill">>

\* the argument list with the budget flag whatever the cap is
ClaudeArgsAlwaysBudget(settings, sessionId) ==
    FixedArgs
      \o <<"--max-budget-usd", NumberString(settings.maxBudgetUsd)>>
      \o (IF Truthy(sessionId) THEN <<"--resume", sessionId>> ELSE <<>>)

\* claudeArgs as runWithSkillStreaming composes it
ClaudeArgs(settings, sessionId) ==
    FixedArgs
      \o (IF settings.maxBudgetUsd > 0
          THEN <<"--max-budget-usd", NumberString(settings.maxBudgetUsd)>>
          ELSE <<>>)
      \o (IF Truthy(sessionId) THEN <<"--resume", sessionId>> ELSE <<>>)

\* proc.stdin.write(data) and proc.stdin.end()
StdinWrite(data) == [op |-> "write", data |-> data]
StdinEnd == [op |-> "end", data |-> <<>>]

\* runWithSkillStreaming up to its return: validation, then spawn, the
\* message on stdin and the arming of the timer; spawned says whether the OS
\* created the child
runWithSkillStreaming(st, request, settings, spawned) ==
    LET v   == validatePaths(settings)
        ran == [st EXCEPT !.probes = v.probes, !.request = request]
    IN  IF v.error # NoError
        THEN [ran EXCEPT !.phase = "invalid", !.trace = <<OnError(v.error)>>]
        ELSE [ran EXCEPT !.phase = "spawned",
                         !.proc = IF spawned THEN "running" ELSE "failed",
                         !.args = ClaudeArgs(settings, request.sessionId),
                         !.stdin = <<StdinWrite(Message(request.skillId, request.text)),
                                     StdinEnd>>,
                         !.buffer = <<>>, !.finalResult = "",
                         !.capturedSessionId = Null, !.killed = FALSE,
                         !.timer = "armed", !.delay = settings.timeout]

\* the setTimeout callback without its report to the caller
TimeoutCallbackSilent(st, settings) ==
    IF ~st.killed THEN KillProc([st EXCEPT !.killed = TRUE]) ELSE st

\* the setTimeout callback
TimeoutCallback(st, settings) ==
    IF ~st.killed
    THEN LET k == KillProc([st EXCEPT !.killed = TRUE])
         IN  [k EXCEPT !.trace = Append(@, OnError(TimeoutError(settings)))]
    ELSE st

\* the text delta test of the loop body
IsTextDelta(event) ==
    /\ event.type = "stream_event"
    /\ event.hasEvent
    /\ event.itype = "content_block_delta"
    /\ event.hasDelta
    /\ event.dtype = "text_delta"
    /\ event.text # Null

\* the loop body calling onChunk for an empty fragment as well
HandleEventAnyText(st, event) ==
    LET s1 == IF IsTextDelta(event)
              THEN [st EXCEPT !.trace = Append(@, OnChunk(event.text))]
              ELSE st
    IN  IF event.type = "result"
        THEN [s1 EXCEPT
                !.finalResult = IF event.result # Null THEN event.result ELSE @,
                !.capturedSessionId =
                    IF event.session_id # Null THEN event.session_id ELSE @]
        ELSE s1

\* the loop body reporting completion as soon as the result event is read
HandleEventDoneOnResult(st, event) ==
    LET s1 == IF IsTextDelta(event) /\ event.text # ""
              THEN [st EXCEPT !.trace = Append(@, OnChunk(event.text))]
              ELSE st
    IN  IF event.type = "result"
        THEN LET s2 == [s1 EXCEPT
                          !.finalResult =
                              IF event.result # Null THEN event.result ELSE @,
                          !.capturedSessionId =
                              IF event.session_id # Null THEN event.session_id ELSE @]
             IN  [s2 EXCEPT !.trace =
                     Append(@, OnDone(s2.finalResult, s2.capturedSessionId))]
        ELSE s1

\* the loop body keeping the session id of the first result event
HandleEventFirstSession(st, event) ==
    LET s1 == IF IsTextDelta(event) /\ event.text # ""
              THEN [st EXCEPT !.trace = Append(@, OnChunk(event.text))]
              ELSE st
    IN  IF event.type = "result"
        THEN [s1 EXCEPT
                !.finalResult = IF event.result # Null THEN event.result ELSE @,
                !.capturedSessionId =
                    IF event.session_id # Null /\ @ = Null
                    THEN event.session_id ELSE @]
        ELSE s1

\* the body of the loop over the complete lines, for one parsed event
HandleEvent(st, event) ==
    LET s1 == IF /\ event.type = "stream_event"
                 /\ event.hasEvent
                 /\ event.itype = "content_block_delta"
                 /\ event.hasDelta
                 /\ event.dtype = "text_delta"
                 /\ event.text # Null
                 /\ event.text # ""
              THEN [st EXCEPT !.trace = Append(@, OnChunk(event.text))]
              ELSE st
    IN  IF event.type = "result"
        THEN [s1 EXCEPT
                !.finalResult = IF event.result # Null THEN event.result ELSE @,
                !.capturedSessionId =
                    IF event.session_id # Null THEN event.session_id ELSE @]
        ELSE s1

\* the lines on which the loop body throws: JSON.parse returns null and
\* event.type is read of it
Throws(line) ==
    /\ Trim(line) # <<>>
    /\ line \in JsonDocuments
    /\ JSONParse(line) = NullValue

\* one iteration of the loop with the SyntaxError of JSON.parse handed to
\* onError
ProcessLineReportsSyntaxError(st, line) ==
    IF Trim(line) = <<>> THEN st
    ELSE IF line \notin JsonDocuments
         THEN [st EXCEPT !.trace = Append(@, OnError(Err("SyntaxError", line)))]
    ELSE LET event == JSONParse(line)
             read  == [st EXCEPT !.parsed = Append(@, event)]
         IN  IF event = NullValue
             THEN [read EXCEPT !.uncaught = TRUE]
             ELSE HandleEvent(read, event)

\* one iteration of the loop over the complete lines; parsed records the
\* values JSON.parse returned; event.type of null throws a TypeError that
\* nothing catches (uncaught)
ProcessLine(st, line) ==
    IF Trim(line) = <<>> THEN st
    ELSE IF line \notin JsonDocuments THEN st
    ELSE LET event == JSONParse(line)
             read  == [st EXCEPT !.parsed = Append(@, event)]
         IN  IF event = NullValue
             THEN [read EXCEPT !.uncaught = TRUE]
             ELSE HandleEvent(read, event)

RECURSIVE ProcessLines(_, _)
\* for (const line of lines) { ... }: the TypeError leaves the loop and the
\* handler
ProcessLines(st, lines) ==
    IF lines = <<>> THEN st
    ELSE IF Throws(Head(lines))
         THEN ProcessLine(st, Head(lines))
         ELSE ProcessLines(ProcessLine(st, Head(lines)), Tail(lines))

\* proc.stdout.on("data", ...)
DataHandler(st, rawChunk) ==
    LET lines == Split(st.buffer \o Decode(rawChunk))
    IN  ProcessLines([st EXCEPT !.buffer = lines[Len(lines)]],
                     SubSeq(lines, 1, Len(lines) - 1))

\* the "close" handler parsing what is left in the buffer as a last line
CloseHandlerFlushes(st) ==
    LET c == ProcessLine(ClearTimeout(st), st.buffer)
    IN  IF ~c.killed
        THEN [c EXCEPT !.trace = Append(@, OnDone(c.finalResult, c.capturedSessionId))]
        ELSE c

\* the "close" handler without the test of the killed flag
CloseHandlerUnguarded(st) ==
    LET c == ClearTimeout(st)
    IN  [c EXCEPT !.trace = Append(@, OnDone(c.finalResult, c.capturedSessionId))]

\* the "close" handler reporting a non-zero exit code as an error
CloseHandlerChecksExit(st) ==
    LET c == ClearTimeout(st)
    IN  IF ~c.killed
        THEN IF c.exitCode # 0
             THEN [c EXCEPT !.trace = Append(@, OnError(Err("exit", <<>>)))]
             ELSE [c EXCEPT !.trace =
                      Append(@, OnDone(c.finalResult, c.capturedSessionId))]
        ELSE c

\* proc.on("close", ...)
CloseHandler(st) ==
    LET c == ClearTimeout(st)
    IN  IF ~c.killed
        THEN [c EXCEPT !.trace = Append(@, OnDone(c.finalResult, c.capturedSessionId))]
        ELSE c

\* the "error" handler without the test of the killed flag
ErrorHandlerUnguarded(st, err) ==
    LET c == ClearTimeout(st)
    IN  [c EXCEPT !.killed = TRUE, !.trace = Append(@, OnError(err))]

\* proc.on("error", ...)
ErrorHandler(st, err) ==
    LET c == ClearTimeout(st)
    IN  IF ~c.killed
        THEN [c EXCEPT !.killed = TRUE, !.trace = Append(@, OnError(err))]
        ELSE c

\* the cancel function without the test of the killed flag
CancelHandleUnguarded(st) ==
    KillProc(ClearTimeout([st EXCEPT !.killed = TRUE]))

\* the cancel function reporting the cancellation to onError
CancelHandleReports(st) ==
    IF ~st.killed
    THEN LET k == KillProc(ClearTimeout([st EXCEPT !.killed = TRUE]))
         IN  [k EXCEPT !.trace = Append(@, OnError(Err("cancelled", <<>>)))]
    ELSE st

\* the cancel function returned after a spawn
CancelHandle(st) ==
    IF ~st.killed
    THEN KillProc(ClearTimeout([st EXCEPT !.killed = TRUE]))
    ELSE st

\* the cancel function returned when validation failed: () => {}
NoopHandle(st) == st

(* ------------------------- the panel: ClaudePanel --------------------- *)

\* invocations one panel makes
MaxTurns == 3
\* stdout "data" events of all children of one panel together
MaxPanelData == 2

\* the fields of a ClaudePanel after onOpen. cancelFn is 0 for null or the
\* number of the invocation whose cancel function it is; container is 0 for
\* null or the number of the assistant message that is the current stream
\* container (the message send creates for invocation c has number c);
\* streamed[m] is the text content of the <pre> of message m, each fragment
\* with the invocation it came from; logged holds, for each "Claude" entry
\* of the transcript, the invocation whose onDone pushed it; rendering
\* counts the finalize calls waiting for MarkdownRenderer.render;
\* sessionClosed says that closeSession has run
OpenPanel ==
    [open |-> TRUE, sessionId |-> Null, cancelFn |-> 0, isStreaming |-> FALSE,
     hasFirstChunk |-> FALSE, inputDisabled |-> FALSE, loading |-> FALSE,
     container |-> 0, pre |-> FALSE,
     streamed |-> [m \in 1..MaxTurns |-> <<>>],
     activeSkillName |-> Null, lastResponseText |-> <<>>,
     conversationLog |-> <<>>, logged |-> <<>>, tokenFrom |-> 0,
     turns |-> 0, rendering |-> 0, sessionClosed |-> FALSE]

\* no panel: the state of the specifications of runWithSkillStreaming alone
NoPanel == [OpenPanel EXCEPT !.open = FALSE]

\* updateInputState()
updateInputState(p) == [p EXCEPT !.inputDisabled = p.isStreaming]

\* appendChunk(text), called by onChunk of invocation c
appendChunk(p, text, c) ==
    LET first == IF ~p.hasFirstChunk
                 THEN [p EXCEPT !.hasFirstChunk = TRUE, !.loading = FALSE,
                                !.pre = IF p.container # 0 THEN TRUE ELSE @]
                 ELSE p
    IN  IF first.pre /\ first.container # 0
        THEN [first EXCEPT !.streamed[first.container] =
                              Append(@, [text |-> text, from |-> c])]
        ELSE first

\* the text of the <pre> of the current stream container
PreText(p) ==
    IF p.pre /\ p.container # 0
    THEN [k \in 1..Len(p.streamed[p.container]) |-> p.streamed[p.container][k].text]
    ELSE <<>>

\* finalize storing the session id of every onDone, null included
finalizeSyncAnyToken(p, fullText, sessionId, c) ==
    LET textToRender == IF fullText # "" THEN <<fullText>> ELSE PreText(p)
        s1 == [p EXCEPT !.isStreaming = FALSE, !.cancelFn = 0, !.loading = FALSE,
                        !.sessionId = sessionId, !.tokenFrom = c]
        s2 == IF textToRender # <<>>
              THEN [s1 EXCEPT !.lastResponseText = textToRender,
                              !.conversationLog = Append(@, "Claude"),
                              !.logged = Append(@, c)]
              ELSE s1
    IN  [s2 EXCEPT !.pre = FALSE, !.container = 0, !.rendering = @ + 1]

\* finalize(fullText, sessionId) up to its await, called by onDone of
\* invocation c
finalizeSync(p, fullText, sessionId, c) ==
    LET textToRender == IF fullText # "" THEN <<fullText>> ELSE PreText(p)
        s1 == [p EXCEPT !.isStreaming = FALSE, !.cancelFn = 0, !.loading = FALSE,
                        !.sessionId = IF Truthy(sessionId) THEN sessionId ELSE @,
                        !.tokenFrom = IF Truthy(sessionId) THEN c ELSE @]
        s2 == IF textToRender # <<>>
              THEN [s1 EXCEPT !.lastResponseText = textToRender,
                              !.conversationLog = Append(@, "Claude"),
                              !.logged = Append(@, c)]
              ELSE s1
    IN  [s2 EXCEPT !.pre = FALSE, !.container = 0, !.rendering = @ + 1]

\* finalize after MarkdownRenderer.render has settled
finalizeRest(p) == updateInputState([p EXCEPT !.rendering = @ - 1])

\* the onError callback of send leaving the input as it is
errorCallbackKeepsInput(p) ==
    [p EXCEPT !.isStreaming = FALSE, !.cancelFn = 0, !.loading = FALSE,
              !.pre = FALSE, !.container = 0]

\* the onError callback send passes to runWithSkillStreaming
errorCallback(p) ==
    LET s1 == updateInputState([p EXCEPT !.isStreaming = FALSE, !.cancelFn = 0,
                                         !.loading = FALSE])
    IN  [s1 EXCEPT !.pre = FALSE, !.container = 0]

RECURSIVE Deliver(_, _, _)
\* the panel after the callbacks that invocation c has made in one step
Deliver(p, calls, c) ==
    IF calls = <<>> THEN p
    ELSE LET e == Head(calls)
             q == CASE e.op = "onChunk" -> appendChunk(p, e.text, c)
                    [] e.op = "onDone"  -> finalizeSync(p, e.text, e.session, c)
                    [] e.op = "onError" -> errorCallback(p)
                    [] OTHER            -> p
         IN  Deliver(q, Tail(calls), c)

\* send(skillId, text) up to the call of runWithSkillStreaming; the
\* invocation it starts is number c
sendBefore(p, c) ==
    LET s1 == updateInputState([p EXCEPT !.isStreaming = TRUE,
                                         !.hasFirstChunk = FALSE])
    IN  [s1 EXCEPT !.container = c, !.loading = TRUE, !.pre = FALSE,
                   !.turns = @ + 1]

\* send(skillId, text): started is the invocation as runWithSkillStreaming
\* returns it, its synchronous onError included
send(p, c, started) ==
    LET called == Deliver(sendBefore(p, c), started.trace, c)
    IN  [called EXCEPT !.cancelFn = c]

\* addUserBubble(text)
addUserBubble(p) == [p EXCEPT !.conversationLog = Append(@, "You")]

\* startConversation(skill, selectedText) up to its call of send; the call
\* of cancelFn is made by the action
startConversationBefore(p, skillName) ==
    addUserBubble([p EXCEPT !.isStreaming = FALSE, !.sessionId = Null,
                            !.tokenFrom = 0,
                            !.conversationLog = <<>>, !.logged = <<>>,
                            !.activeSkillName = skillName])

\* closeSession() without the reset of the session id
closeSessionKeepsToken(p) ==
    [p EXCEPT !.cancelFn = 0, !.isStreaming = FALSE,
              !.lastResponseText = <<>>, !.conversationLog = <<>>,
              !.logged = <<>>, !.activeSkillName = Null, !.open = FALSE,
              !.sessionClosed = TRUE]

\* closeSession(); the call of cancelFn is made by the action, and
\* this.leaf.detach() closes the view
closeSession(p) ==
    [p EXCEPT !.cancelFn = 0, !.sessionId = Null, !.tokenFrom = 0,
              !.isStreaming = FALSE,
              !.lastResponseText = <<>>, !.conversationLog = <<>>,
              !.logged = <<>>, !.activeSkillName = Null, !.open = FALSE,
              !.sessionClosed = TRUE]

\* onClose(); the call of cancelFn is made by the action
onClose(p) == [p EXCEPT !.cancelFn = 0, !.open = FALSE]

(* --------------------- main.ts: detectClaudeBinary -------------------- *)

\* os.homedir()
HomeDir == <<"home", "u">>

\* the install locations detectClaudeBinary probes, in order; a path is the
\* sequence of its segments
Candidates(platform) ==
    IF platform = "win32"
    THEN << HomeDir \o <<"AppData", "Roaming", "npm", "claude.cmd">>,
            HomeDir \o <<"AppData", "Roaming", "npm", "claude">> >>
    ELSE << HomeDir \o <<".local", "bin", "claude">>,
            <<"usr", "local", "bin", "claude">>,
            <<"usr", "bin", "claude">>,
            HomeDir \o <<".npm-global", "bin", "claude">>,
            <<"opt", "homebrew", "bin", "claude">>,
            HomeDir \o <<".nvm", "current", "bin", "claude">> >>

RECURSIVE FirstExecutable(_, _)
\* for (const p of candidates) { try { accessSync(p, X_OK); return p } ... }
\* return "": the empty path is the empty string
FirstExecutable(host, candidates) ==
    IF candidates = <<>> THEN <<>>
    ELSE IF Head(candidates) \in host.executable
         THEN Head(candidates)
         ELSE FirstExecutable(host, Tail(candidates))

\* detectClaudeBinary() on the machine host
detectClaudeBinary(host) == FirstExecutable(host, Candidates(host.platform))

\* the part of onload that follows loadSettings: the binary path it leaves
\* in the settings
onloadBinPath(host, settings) ==
    IF settings.claudeBinPath = <<>>
    THEN LET detected == detectClaudeBinary(host)
         IN  IF detected # <<>> THEN detected ELSE settings.claudeBinPath
    ELSE settings.claudeBinPath

(* ------------------- the plugin: the enabled skills ------------------- *)

\* the largest number of skills discoverSkills finds
MaxSkills == 4

\* list.filter((id) => id !== x)
Without(list, x) == SelectSeq(list, LAMBDA id : id # x)

\* discoverSkills(): the skills found at load time, named by their ids
DiscoveredSkills == { [i \in 1..n |-> i] : n \in 0..MaxSkills }

\* no editor menu is showing
NoMenu == [open |-> FALSE, selected |-> <<>>, items |-> <<>>]

\* the "editor-menu" handler of registerContextMenu(plugin, skills, ...) for
\* the selection selected: the menu with the items the handler added, one
\* for each skill of the list it was registered with
editorMenu(skills, selected) ==
    IF selected = <<>> \/ Len(Trim(selected)) = 0
    THEN [open |-> TRUE, selected |-> selected, items |-> <<>>]
    ELSE IF Len(skills) = 0
         THEN [open |-> TRUE, selected |-> selected, items |-> <<>>]
         ELSE [open |-> TRUE, selected |-> selected, items |-> skills]

\* getEnabledSkills() of the skills found and a list of enabled ids
EnabledAmong(skills, enabledSkills) ==
    IF Len(enabledSkills) = 0
    THEN skills
    ELSE SelectSeq(skills, LAMBDA s : Includes(enabledSkills, s))

\* the plugin after onload with the default settings: skills is plugin.skills,
\* enabledSkills is plugin.settings.enabledSkills, toggle[id] is the value the
\* toggle of the skill shows in the settings tab, registered is the list
\* onload handed to registerContextMenu, menu is the editor menu showing.
\* History: latest[id] is the value the user last gave the toggle (on for a
\* skill never toggled)
LoadedPlugin(skills) ==
    [skills |-> skills, enabledSkills |-> <<>>,
     toggle |-> [i \in DOMAIN skills |-> TRUE],
     latest |-> [i \in DOMAIN skills |-> TRUE],
     registered |-> EnabledAmong(skills, <<>>),
     menu |-> NoMenu]

\* the state of the specifications that have no settings tab
NoPlugin == LoadedPlugin(<<>>)

\* getEnabledSkills()
getEnabledSkills(pl) == EnabledAmong(pl.skills, pl.enabledSkills)

\* isEnabled, the value display() gives the toggle of a skill
isEnabled(pl, id) ==
    Len(pl.enabledSkills) = 0 \/ Includes(pl.enabledSkills, id)

\* the onChange callback of the toggle of skill id: the new enabledSkills
onChange(pl, id, value) ==
    LET current == pl.enabledSkills
        next == Without(current, id) \o <<id>>
        base == IF Len(current) = 0 THEN pl.skills ELSE current
    IN  IF value
        THEN IF Len(next) = Len(pl.skills) THEN <<>> ELSE next
        ELSE Without(base, id)

(* ------------------------------- state -------------------------------- *)

VARIABLES
    settings,     \* plugin.settings, the object every invocation is handed
    inv,          \* inv[c]: closure state and history of the invocation that
                  \* call site c holds the cancel handle of
    panel,        \* the fields of the ClaudePanel view
    plugin        \* the discovered skills, settings.enabledSkills and the
                  \* toggles of the settings tab

vars == <<settings, inv, panel, plugin>>

\* the call sites of runWithSkillStreaming
CallSites == {1}

\* the settings a user can have stored
Settings ==
    [claudeBinPath : BinPaths, workingDirectory : WorkDirs, timeout : Timeouts,
     maxBudgetUsd : {25}]

\* the state after the plugin has loaded its stored settings; one call site
Init ==
    /\ panel = NoPanel
    /\ plugin = NoPlugin
    /\ settings \in Settings
    /\ inv = [c \in CallSites |-> Idle]

(* --------------------- settings.ts: the settings tab ------------------ *)

\* "Claude binary path" onChange; value is the text already trimmed (a path
\* is held as its segments)
EditBinPath(value) ==
    /\ settings' = [settings EXCEPT !.claudeBinPath = value]
    /\ UNCHANGED <<inv, panel, plugin>>

\* "Working directory" onChange
EditWorkDir(value) ==
    /\ settings' = [settings EXCEPT !.workingDirectory = Trim(value)]
    /\ UNCHANGED <<inv, panel, plugin>>

\* "Timeout (ms)" onChange, n the parsed integer
EditTimeout(n) ==
    /\ settings' = IF n > 0 THEN [settings EXCEPT !.timeout = n] ELSE settings
    /\ UNCHANGED <<inv, panel, plugin>>

\* "Max budget per request (USD)" onChange, n the parsed number in
\* hundredths of a dollar
EditBudget(n) ==
    /\ settings' = IF n >= 0 THEN [settings EXCEPT !.maxBudgetUsd = n] ELSE settings
    /\ UNCHANGED <<inv, panel, plugin>>

(* ------------------------------ actions ------------------------------- *)

\* no event can reach the closure of the invocation any more
Ended(st) == st.phase = "invalid" \/ st.proc = "closed"

\* call site c calls runWithSkillStreaming with the arguments of request
Call(c, request, spawned) ==
    /\ inv[c].phase = "idle"
    /\ inv' = [inv EXCEPT ![c] = runWithSkillStreaming(@, request, settings, spawned)]
    /\ UNCHANGED <<settings, panel, plugin>>

\* call site c calls runWithSkillStreaming
Invoke(c, spawned) == Call(c, DefaultRequest, spawned)

\* call site c drops the cancel handle of an invocation that has ended
Release(c) ==
    /\ Ended(inv[c])
    /\ inv' = [inv EXCEPT ![c] = Idle]
    /\ UNCHANGED <<settings, panel, plugin>>

\* the timer of the invocation expires; the "error" event of a failed spawn
\* is emitted on the next tick, before any timer
TimerExpire(c) ==
    /\ inv[c].timer = "armed"
    /\ ~(inv[c].proc = "failed" /\ ~inv[c].errored)
    /\ inv' = [inv EXCEPT ![c] = TimeoutCallback([@ EXCEPT !.timer = "fired"], settings)]
    /\ UNCHANGED <<settings, panel, plugin>>

\* the child writes rawChunk to its stdout
ProcData(c, rawChunk) ==
    /\ inv[c].proc = "running"
    /\ inv[c].reads < MaxData
    /\ inv' = [inv EXCEPT ![c] =
                  DataHandler([@ EXCEPT !.reads = @ + 1,
                                        !.received = @ \o rawChunk], rawChunk)]
    /\ UNCHANGED <<settings, panel, plugin>>

\* the child writes rawChunk to its stdout, up to MaxStream times
StreamData(c, rawChunk) ==
    /\ inv[c].proc = "running"
    /\ inv[c].reads < MaxStream
    /\ inv' = [inv EXCEPT ![c] =
                  DataHandler([@ EXCEPT !.reads = @ + 1,
                                        !.received = @ \o rawChunk], rawChunk)]
    /\ UNCHANGED <<settings, panel, plugin>>

\* the child has ended and its streams are closed; after a failed spawn
\* "close" follows the "error" event
ProcExit(c, code) ==
    /\ \/ inv[c].proc = "running"
       \/ inv[c].proc = "failed" /\ inv[c].errored
    /\ inv' = [inv EXCEPT ![c] =
                  CloseHandler([@ EXCEPT !.proc = "closed", !.exitCode = code])]
    /\ UNCHANGED <<settings, panel, plugin>>

\* the child has ended with exit code 0
ProcClose(c) == ProcExit(c, 0)

\* the ChildProcess emits "error" because the spawn failed
SpawnError(c) ==
    /\ inv[c].proc = "failed"
    /\ ~inv[c].errored
    /\ inv' = [inv EXCEPT ![c] =
                  ErrorHandler([@ EXCEPT !.errored = TRUE], Err("spawn", <<>>))]
    /\ UNCHANGED <<settings, panel, plugin>>

\* the ChildProcess emits "error" for a process-level failure; the child
\* keeps running
ProcError(c) ==
    /\ inv[c].proc = "running"
    /\ inv' = [inv EXCEPT ![c] =
                  ErrorHandler([@ EXCEPT !.errored = TRUE], Err("child", <<>>))]
    /\ UNCHANGED <<settings, panel, plugin>>

\* calls of the cancel handle recorded in a trace
CancelCount(trace) == Len(SelectSeq(trace, LAMBDA e : e.op = "cancel"))

\* the cancel function with killed a variable of the module, shared by all
\* invocations
CancelShared(c) ==
    /\ inv[c].phase # "idle"
    /\ CancelCount(inv[c].trace) < MaxCancel
    /\ LET called == [inv[c] EXCEPT !.trace = Append(@, CancelCall)]
       IN  inv' = [d \in DOMAIN inv |->
                      IF d # c THEN [inv[d] EXCEPT !.killed = TRUE]
                      ELSE IF inv[c].phase = "invalid"
                           THEN NoopHandle(called)
                           ELSE CancelHandle(called)]
    /\ UNCHANGED <<settings, panel, plugin>>

\* the caller calls the cancel function the invocation returned
Cancel(c) ==
    /\ inv[c].phase # "idle"
    /\ CancelCount(inv[c].trace) < MaxCancel
    /\ LET called == [inv[c] EXCEPT !.trace = Append(@, CancelCall)]
       IN  inv' = [inv EXCEPT ![c] = IF inv[c].phase = "invalid"
                                     THEN NoopHandle(called)
                                     ELSE CancelHandle(called)]
    /\ UNCHANGED <<settings, panel, plugin>>

Next ==
    \/ \E v \in BinPaths : EditBinPath(v)
    \/ \E v \in WorkDirs : EditWorkDir(v)
    \/ \E n \in Timeouts \cup {0} : EditTimeout(n)
    \/ \E c \in DOMAIN inv, spawned \in BOOLEAN : Invoke(c, spawned)
    \/ \E c \in DOMAIN inv : Release(c)
    \/ \E c \in DOMAIN inv : TimerExpire(c)
    \/ \E c \in DOMAIN inv, chunk \in StdoutChunks : ProcData(c, chunk)
    \/ \E c \in DOMAIN inv : ProcClose(c)
    \/ \E c \in DOMAIN inv : SpawnError(c)
    \/ \E c \in DOMAIN inv : ProcError(c)
    \/ \E c \in DOMAIN inv : Cancel(c)

Spec == Init /\ [][Next]_vars

(* ------------- the output stream of one child, chunk by chunk ---------- *)

\* settings that pass validatePaths
StreamSettings ==
    [claudeBinPath |-> <<"usr", "bin", "claude">>, workingDirectory |-> <<>>,
     timeout |-> 1000, maxBudgetUsd |-> 25]

StreamInit ==
    /\ panel = NoPanel
    /\ plugin = NoPlugin
    /\ settings = StreamSettings
    /\ inv = [c \in CallSites |-> Idle]

StreamNext ==
    \/ \E c \in DOMAIN inv : Invoke(c, TRUE)
    \/ \E c \in DOMAIN inv, chunk \in StreamChunks : StreamData(c, chunk)
    \/ \E c \in DOMAIN inv, code \in ExitCodes : ProcExit(c, code)
    \/ \E c \in DOMAIN inv : TimerExpire(c)

StreamSpec == StreamInit /\ [][StreamNext]_vars

(* ------------------- the command line and the message ------------------ *)

\* valid paths, every cap
ArgsSettings ==
    {[StreamSettings EXCEPT !.maxBudgetUsd = b] : b \in Budgets}

ArgsInit ==
    /\ panel = NoPanel
    /\ plugin = NoPlugin
    /\ settings \in ArgsSettings
    /\ inv = [c \in CallSites |-> Idle]

ArgsNext ==
    \/ \E n \in Budgets \cup {-25} : EditBudget(n)
    \/ \E c \in DOMAIN inv, request \in Requests, spawned \in BOOLEAN :
          Call(c, request, spawned)
    \/ \E c \in DOMAIN inv : Release(c)
    \/ \E c \in DOMAIN inv : TimerExpire(c)
    \/ \E c \in DOMAIN inv, chunk \in StdoutChunks : ProcData(c, chunk)
    \/ \E c \in DOMAIN inv : ProcClose(c)
    \/ \E c \in DOMAIN inv : SpawnError(c)
    \/ \E c \in DOMAIN inv : Cancel(c)

ArgsSpec == ArgsInit /\ [][ArgsNext]_vars

(* ------------------------ the panel and its streams ------------------- *)

\* the settings of the panel specification: valid ones, and ones that fail
\* validatePaths
PanelSettings == {StreamSettings, [StreamSettings EXCEPT !.claudeBinPath = <<>>]}

\* an open panel that has sent nothing
PanelInit ==
    /\ settings \in PanelSettings
    /\ inv = [c \in 1..MaxTurns |-> Idle]
    /\ panel = OpenPanel
    /\ plugin = NoPlugin

\* the stdout chunks of the panel specification
PanelChunks ==
    { <<"d", "1", "\n", "r", "1", "\n">>, <<"r", "2", "\n">> }

RECURSIVE ReadsUpTo(_, _)
\* the "data" events of invocations 1..n so far
ReadsUpTo(invs, n) == IF n = 0 THEN 0 ELSE invs[n].reads + ReadsUpTo(invs, n - 1)

\* this.cancelFn?.() for cancelFn = k
CallCancelFn(invs, k) ==
    IF k = 0 THEN invs
    ELSE LET called == [invs[k] EXCEPT !.trace = Append(@, CancelCall)]
         IN  [invs EXCEPT ![k] = IF invs[k].phase = "invalid"
                                 THEN NoopHandle(called)
                                 ELSE CancelHandle(called)]

\* startConversation without the call of cancelFn
StartConversationNoCancel(spawned) ==
    /\ panel.open
    /\ panel.turns < MaxTurns
    /\ LET c       == panel.turns + 1
           before  == startConversationBefore(panel, "Summarize")
           started == runWithSkillStreaming(Idle,
                          Request("summarize", <<"h", "i">>, before.sessionId),
                          settings, spawned)
       IN  /\ inv' = [inv EXCEPT ![c] = started]
           /\ panel' = send(before, c, started)
    /\ UNCHANGED <<settings, plugin>>

\* the user picks a skill in the editor menu: startConversation
StartConversation(spawned) ==
    /\ panel.open
    /\ panel.turns < MaxTurns
    /\ LET c       == panel.turns + 1
           before  == startConversationBefore(panel, "Summarize")
           started == runWithSkillStreaming(Idle,
                          Request("summarize", <<"h", "i">>, before.sessionId),
                          settings, spawned)
       IN  /\ inv' = [CallCancelFn(inv, panel.cancelFn) EXCEPT ![c] = started]
           /\ panel' = send(before, c, started)
    /\ UNCHANGED <<settings, plugin>>

\* the user sends a typed message: handleSend with a text that is not blank
HandleSend(spawned) ==
    /\ panel.open
    /\ ~panel.isStreaming
    /\ panel.turns < MaxTurns
    /\ LET c       == panel.turns + 1
           before  == addUserBubble(panel)
           started == runWithSkillStreaming(Idle,
                          Request(Null, <<"h", "i">>, before.sessionId),
                          settings, spawned)
       IN  /\ inv' = [inv EXCEPT ![c] = started]
           /\ panel' = send(before, c, started)
    /\ UNCHANGED <<settings, plugin>>

\* the user clicks "Close session": closeSession, whose leaf.detach() makes
\* the workspace call onClose
CloseSession ==
    /\ panel.open
    /\ inv' = CallCancelFn(inv, panel.cancelFn)
    /\ panel' = onClose(closeSession(panel))
    /\ UNCHANGED <<settings, plugin>>

\* the user closes the panel: onClose
ClosePanel ==
    /\ panel.open
    /\ inv' = CallCancelFn(inv, panel.cancelFn)
    /\ panel' = onClose(panel)
    /\ UNCHANGED <<settings, plugin>>

\* MarkdownRenderer.render settles and finalize runs to its end
FinalizeRest ==
    /\ panel.rendering > 0
    /\ panel' = finalizeRest(panel)
    /\ UNCHANGED <<settings, inv, plugin>>

\* invocation c of the panel goes to state next in an event of its child or
\* its timer; the callbacks made in the event reach the panel
PanelEvent(c, next) ==
    /\ inv' = [inv EXCEPT ![c] = next]
    /\ panel' = Deliver(panel,
                        SubSeq(next.trace, Len(inv[c].trace) + 1, Len(next.trace)),
                        c)
    /\ UNCHANGED <<settings, plugin>>

\* the timer of invocation c expires
PanelTimer(c) ==
    /\ inv[c].timer = "armed"
    /\ ~(inv[c].proc = "failed" /\ ~inv[c].errored)
    /\ PanelEvent(c, TimeoutCallback([inv[c] EXCEPT !.timer = "fired"], settings))

\* the child of invocation c writes rawChunk to its stdout
PanelData(c, rawChunk) ==
    /\ inv[c].proc = "running"
    /\ ReadsUpTo(inv, MaxTurns) < MaxPanelData
    /\ PanelEvent(c, DataHandler([inv[c] EXCEPT !.reads = @ + 1,
                                                !.received = @ \o rawChunk],
                                 rawChunk))

\* the child of invocation c has ended and its streams are closed
PanelExit(c) ==
    /\ \/ inv[c].proc = "running"
       \/ inv[c].proc = "failed" /\ inv[c].errored
    /\ PanelEvent(c, CloseHandler([inv[c] EXCEPT !.proc = "closed", !.exitCode = 0]))

PanelNext ==
    \/ StartConversation(TRUE)
    \/ HandleSend(TRUE)
    \/ CloseSession
    \/ ClosePanel
    \/ FinalizeRest
    \/ \E c \in DOMAIN inv : PanelTimer(c)
    \/ \E c \in DOMAIN inv, chunk \in PanelChunks : PanelData(c, chunk)
    \/ \E c \in DOMAIN inv : PanelExit(c)

PanelSpec == PanelInit /\ [][PanelNext]_vars

\* the event loop runs timers and the continuations of settled promises
FairPanelSpec ==
    /\ PanelSpec
    /\ \A c \in 1..MaxTurns : WF_vars(PanelTimer(c))
    /\ WF_vars(FinalizeRest)

(* ---------------------- two invocations at once ----------------------- *)

\* two callers, each holding the cancel handle of its own invocation
ConcurrentInit ==
    /\ panel = NoPanel
    /\ plugin = NoPlugin
    /\ settings = StreamSettings
    /\ inv = [c \in {1, 2} |-> Idle]

ConcurrentNext ==
    \/ \E c \in DOMAIN inv, spawned \in BOOLEAN : Invoke(c, spawned)
    \/ \E c \in DOMAIN inv : TimerExpire(c)
    \/ \E c \in DOMAIN inv : ProcData(c, <<"1", "\n", "r", "1", "\n">>)
    \/ \E c \in DOMAIN inv : ProcClose(c)
    \/ \E c \in DOMAIN inv : SpawnError(c)
    \/ \E c \in DOMAIN inv : ProcError(c)
    \/ \E c \in DOMAIN inv : Cancel(c)

ConcurrentSpec == ConcurrentInit /\ [][ConcurrentNext]_vars

(* ---------------------- the isolation wrapper ------------------------- *)

\* the binaries and argument lists buildIsolatedSpawn is called with
WrappedBins == {PathString(b) : b \in BinPaths \ {<<>>}}
WrappedArgs == {ClaudeArgs(a, r.sessionId) : a \in ArgsSettings, r \in Requests}

\* a call of buildIsolatedSpawn that has not returned: its arguments and
\* the machine it runs on
PendingSpawn(host, claudeBin, claudeArgs) ==
    [host |-> host, claudeBin |-> claudeBin, claudeArgs |-> claudeArgs,
     returned |-> FALSE, target |-> SpawnTarget("", <<>>)]

\* any machine, any binary, any argument list
IsolationInit ==
    /\ panel = NoPanel
    /\ plugin = NoPlugin
    /\ settings = StreamSettings
    /\ inv \in [CallSites ->
                  {PendingSpawn(h, b, a) :
                       h \in Hosts, b \in WrappedBins, a \in WrappedArgs}]

\* buildIsolatedSpawn returns to call site c
BuildSpawn(c) ==
    /\ ~inv[c].returned
    /\ inv' = [inv EXCEPT ![c] =
                  [@ EXCEPT !.returned = TRUE,
                            !.target = buildIsolatedSpawn(inv[c].host,
                                           inv[c].claudeBin, inv[c].claudeArgs)]]
    /\ UNCHANGED <<settings, panel, plugin>>

IsolationNext == \E c \in DOMAIN inv : BuildSpawn(c)

IsolationSpec == IsolationInit /\ [][IsolationNext]_vars

\* an armed timer expires unless it is cleared first, and a failed spawn is
\* reported on the next tick of the event loop
FairSpec ==
    /\ Spec
    /\ \A c \in CallSites : WF_vars(TimerExpire(c))
    /\ \A c \in CallSites : WF_vars(SpawnError(c))

(* ------------------ the binary found on first load -------------------- *)

\* the plugin before onload on the machine host: what detectClaudeBinary
\* returned is not known yet
PendingLoad(host) == [host |-> host, returned |-> FALSE, detected |-> <<>>]

\* the machines a plugin is loaded on: any platform, any of the install
\* locations executable
DetectHosts ==
    {Host(p, x) : p \in {"linux", "darwin", "win32"},
                  x \in SUBSET {<<"usr", "local", "bin", "claude">>,
                                <<"usr", "bin", "claude">>,
                                <<"opt", "homebrew", "bin", "claude">>,
                                HomeDir \o <<".local", "bin", "claude">>,
                                HomeDir \o <<"AppData", "Roaming", "npm", "claude.cmd">>,
                                HomeDir \o <<"AppData", "Roaming", "npm", "claude">>}}

\* the stored settings have no binary path (first install) or have one
DetectInit ==
    /\ panel = NoPanel
    /\ plugin = NoPlugin
    /\ settings \in {[StreamSettings EXCEPT !.claudeBinPath = b] :
                        b \in {<<>>, <<"usr", "bin", "claude">>}}
    /\ inv \in [CallSites -> {PendingLoad(h) : h \in DetectHosts}]

\* onload on the machine of c, up to the notice about the binary
Onload(c) ==
    /\ ~inv[c].returned
    /\ inv' = [inv EXCEPT ![c] =
                  [@ EXCEPT !.returned = TRUE,
                            !.detected = IF settings.claudeBinPath = <<>>
                                         THEN detectClaudeBinary(inv[c].host)
                                         ELSE <<>>]]
    /\ settings' = [settings EXCEPT
                      !.claudeBinPath = onloadBinPath(inv[c].host, settings)]
    /\ UNCHANGED <<panel, plugin>>

DetectNext == \E c \in DOMAIN inv : Onload(c)

DetectSpec == DetectInit /\ [][DetectNext]_vars

(* -------------------- the skill toggles of the settings tab ----------- *)

\* the plugin has loaded with the default settings and found up to
\* MaxSkills skills; no invocation is made
SkillsInit ==
    /\ settings = StreamSettings
    /\ inv = [c \in CallSites |-> Idle]
    /\ panel = NoPanel
    /\ plugin \in { LoadedPlugin(skills) : skills \in DiscoveredSkills }

\* the selections an editor can hold when its menu is opened
Selections == { <<>>, <<" ">>, <<"a">> }

\* display(): the settings tab is opened and draws every toggle anew; an
\* editor menu that was showing has closed
Display ==
    /\ plugin' = [plugin EXCEPT
                    !.toggle = [i \in DOMAIN plugin.skills |->
                                  isEnabled(plugin, plugin.skills[i])],
                    !.menu = NoMenu]
    /\ UNCHANGED <<settings, inv, panel>>

\* the user clicks the toggle of skill id: it flips and onChange runs; an
\* editor menu that was showing has closed
Toggle(id) ==
    /\ Includes(plugin.skills, id)
    /\ LET value == ~plugin.toggle[id]
       IN  plugin' = [plugin EXCEPT
                        !.enabledSkills = onChange(plugin, id, value),
                        !.toggle[id] = value,
                        !.latest[id] = value,
                        !.menu = NoMenu]
    /\ UNCHANGED <<settings, inv, panel>>

\* the user opens the editor menu on the selection selected: the
\* "editor-menu" event runs the handler registered at load
EditorMenu(selected) ==
    /\ plugin' = [plugin EXCEPT !.menu = editorMenu(plugin.registered, selected)]
    /\ UNCHANGED <<settings, inv, panel>>

SkillsNext ==
    \/ Display
    \/ \E selected \in Selections : EditorMenu(selected)
    \/ \E id \in 1..MaxSkills : Toggle(id)

SkillsSpec == SkillsInit /\ [][SkillsNext]_vars

(* --------------- output that does not end in a line feed -------------- *)

\* the stdout chunks of RemainderSpec: lines with their line feed, and JSON
\* documents the line feed of which never comes
RemainderChunks ==
    { <<"d", "1", "\n">>, <<"r", "1", "\n">>, <<"\n">>, <<"d", "2">>,
      <<"r", "2">>, <<"x", "\n", "r", "2">> }

RemainderNext ==
    \/ \E c \in DOMAIN inv : Invoke(c, TRUE)
    \/ \E c \in DOMAIN inv, chunk \in RemainderChunks : StreamData(c, chunk)
    \/ \E c \in DOMAIN inv : ProcClose(c)
    \/ \E c \in DOMAIN inv : TimerExpire(c)

RemainderSpec == StreamInit /\ [][RemainderNext]_vars

(* ------------------------------ histories ----------------------------- *)

\* the positions of a trace that hold one of the operations ops
At(trace, ops) == { k \in 1..Len(trace) : trace[k].op \in ops }

Terminals(trace) == At(trace, {"onDone", "onError"})
Callbacks(trace) == At(trace, {"onChunk", "onDone", "onError"})
Cancels(trace)   == At(trace, {"cancel"})
Kills(trace)     == At(trace, {"proc.kill"})

\* an invocation without the record of the calls of its cancel handle: the
\* closure state, the child, and what the invocation did
Effects(st) == [st EXCEPT !.trace = SelectSeq(@, LAMBDA e : e.op # "cancel")]

\* this step is a call of the cancel handle of the invocation of call site c
CancelStep(c) ==
    /\ inv[c].phase # "idle"
    /\ Len(inv'[c].trace) > Len(inv[c].trace)
    /\ inv'[c].trace[Len(inv[c].trace) + 1].op = "cancel"

\* this step is a call of runWithSkillStreaming by call site c
InvokeStep(c) == inv[c].phase = "idle" /\ inv'[c].phase # "idle"

(* -------------------------------- claims ------------------------------ *)

\* C1: an invocation that passed validation and whose cancel handle has not
\* been called makes at most one of the calls onDone / onError, and exactly
\* one once its child has closed, an "error" event was handled or its timer
\* has expired.
C1_ExactlyOneTerminal ==
    \A c \in DOMAIN inv :
        (inv[c].phase = "spawned" /\ Cancels(inv[c].trace) = {}) =>
            /\ Cardinality(Terminals(inv[c].trace)) <= 1
            /\ (inv[c].proc = "closed" \/ inv[c].errored \/ inv[c].timer = "fired")
                   => Cardinality(Terminals(inv[c].trace)) = 1

\* C1 witness: a never-cancelled invocation whose timer expired and whose
\* child closed afterwards
C1_Witness ==
    \E c \in DOMAIN inv :
        /\ inv[c].phase = "spawned" /\ Cancels(inv[c].trace) = {}
        /\ inv[c].timer = "fired" /\ inv[c].proc = "closed"

\* C2: when the cancel handle is called before onDone or onError, neither
\* is ever called for that invocation.
C2_CancelFirstIsSilent ==
    \A c \in DOMAIN inv :
        \A k \in Cancels(inv[c].trace) :
            (\A j \in Terminals(inv[c].trace) : j > k) =>
                Terminals(inv[c].trace) = {}

\* C2 witness: cancelled while running, then the child closed
C2_Witness ==
    \E c \in DOMAIN inv :
        /\ inv[c].phase = "spawned" /\ inv[c].proc = "closed"
        /\ Cancels(inv[c].trace) # {} /\ Terminals(inv[c].trace) = {}
        /\ inv[c].errored

\* C3 (as claimed): after a call of the cancel handle the invocation makes
\* no callback at all, onChunk included.
C3_NoCallbackAfterCancel ==
    \A c \in DOMAIN inv :
        \A k \in Cancels(inv[c].trace) :
            \A j \in Callbacks(inv[c].trace) : j < k

\* C4 (as claimed): when the timer expires, proc.kill() is called, onError is
\* called exactly once, with a message that states the duration the timer
\* was armed with, and onDone is never called.
C4_TimeoutReported ==
    \A c \in DOMAIN inv :
        inv[c].timer = "fired" =>
            /\ Kills(inv[c].trace) # {}
            /\ At(inv[c].trace, {"onDone"}) = {}
            /\ Cardinality(At(inv[c].trace, {"onError"})) = 1
            /\ \A k \in At(inv[c].trace, {"onError"}) :
                   /\ inv[c].trace[k].err.kind = "Claude timed out after"
                   /\ 1000 * inv[c].trace[k].err.secs + inv[c].trace[k].err.millis
                          = inv[c].delay

\* C5: an invocation that passed validation makes a terminal callback
\* sooner or later, unless its cancel handle is called.
C5_Terminates ==
    \A c \in CallSites :
        (inv[c].phase = "spawned") ~>
            (Terminals(inv[c].trace) # {} \/ Cancels(inv[c].trace) # {})

\* C5 witness: the child neither wrote nor ended, and the timer ended the
\* invocation
C5_Witness ==
    \E c \in DOMAIN inv :
        /\ inv[c].proc = "running" /\ inv[c].reads = 0 /\ inv[c].timer = "fired"
        /\ Terminals(inv[c].trace) # {} /\ Cancels(inv[c].trace) = {}

\* C6 (as claimed): once an invocation has made its terminal callback or
\* was cancelled, its child has ended or proc.kill() has been called.
C6_CleanupOnEveryExit ==
    \A c \in DOMAIN inv :
        (inv[c].phase = "spawned"
            /\ (Terminals(inv[c].trace) # {} \/ Cancels(inv[c].trace) # {})) =>
                (inv[c].proc # "running" \/ Kills(inv[c].trace) # {})

\* the proc.kill() calls a trace shows the cancel handle to have made: the
\* handle records its call and then, at most, kills
KillsByHandle(trace) == { k \in Kills(trace) : k > 1 /\ trace[k - 1].op = "cancel" }

\* C7: a second or later call of the cancel handle changes nothing: neither
\* the closure state nor the child nor the callbacks made; and the handle
\* calls proc.kill() at most once in all.
C7_CancelIdempotent ==
    /\ [](\A c \in CallSites : Cardinality(KillsByHandle(inv[c].trace)) <= 1)
    /\ [][\A c \in CallSites :
            (CancelStep(c) /\ Cancels(inv[c].trace) # {}) =>
                Effects(inv'[c]) = Effects(inv[c])]_vars

\* C7 witness: the handle of a running invocation was called twice and has
\* killed once
C7_Witness ==
    \E c \in DOMAIN inv :
        /\ inv[c].phase = "spawned" /\ inv[c].proc = "running"
        /\ Cardinality(Cancels(inv[c].trace)) = 2
        /\ inv[c].trace[1].op = "cancel"
        /\ Cardinality(KillsByHandle(inv[c].trace)) = 1

\* the invocation has finished: its child closed and onDone was called
Finished(st) == st.proc = "closed" /\ At(st.trace, {"onDone"}) # {}

\* C8 (as claimed): a call of the cancel handle after the invocation has
\* finished or was killed calls proc.kill() no more and changes no state of
\* the invocation.
C8_LateCancelChangesNothing ==
    [][\A c \in CallSites :
          (CancelStep(c) /\ (Finished(inv[c]) \/ inv[c].killed)) =>
              Effects(inv'[c]) = Effects(inv[c])]_vars

\* C8 (amended): a call of the cancel handle after the invocation was killed
\* changes nothing; after the invocation has finished it makes no callback,
\* delivers no signal and leaves timer, buffer and captured result alone,
\* and changes only the killed flag and the record of proc.kill() calls.
C8_LateCancelHasNoEffect ==
    [][\A c \in CallSites :
          /\ (CancelStep(c) /\ inv[c].killed) =>
                 Effects(inv'[c]) = Effects(inv[c])
          /\ (CancelStep(c) /\ Finished(inv[c])) =>
                 /\ inv'[c].signals = inv[c].signals
                 /\ Callbacks(Effects(inv'[c]).trace) = Callbacks(Effects(inv[c]).trace)
                 /\ [Effects(inv'[c]) EXCEPT !.killed = FALSE,
                        !.trace = SelectSeq(@, LAMBDA e : e.op # "proc.kill")]
                    = [Effects(inv[c]) EXCEPT !.killed = FALSE,
                        !.trace = SelectSeq(@, LAMBDA e : e.op # "proc.kill")]]_vars

\* C8 witness: the handle was called after the child closed and onDone was
\* called
C8_Witness ==
    \E c \in DOMAIN inv :
        /\ Finished(inv[c])
        /\ \E k \in Cancels(inv[c].trace) :
               \E j \in At(inv[c].trace, {"onDone"}) : j < k

\* what validatePaths requires of the settings, stated on the file system
BinaryNameAllowed(cfg) ==
    Basename(cfg.claudeBinPath) = "claude" \/ Basename(cfg.claudeBinPath) = "claude-code"
BinaryRuns(cfg) == cfg.claudeBinPath \in FsExecutable
WorkDirBlank(cfg) == \A k \in 1..Len(cfg.workingDirectory) : cfg.workingDirectory[k] = " "
WorkDirOk(cfg) == WorkDirBlank(cfg) \/ FsStat(cfg.workingDirectory) = "dir"

\* C9: every call of runWithSkillStreaming validates the settings as they
\* are at the call; when they fail, it calls onError once before it returns,
\* spawns no child and arms no timer; nothing else is ever called for that
\* invocation and its cancel handle does nothing.
C9_InvalidSettingsFailFast ==
    /\ [][\A c \in CallSites :
            InvokeStep(c) =>
                (inv'[c].phase = "invalid"
                    <=> ~(BinaryNameAllowed(settings) /\ BinaryRuns(settings)
                            /\ WorkDirOk(settings)))]_vars
    /\ [](\A c \in CallSites :
            inv[c].phase = "invalid" =>
                /\ Effects(inv[c]).trace = <<inv[c].trace[1]>>
                /\ inv[c].trace[1].op = "onError"
                /\ inv[c].proc = "none" /\ inv[c].timer = "none"
                /\ inv[c].signals = 0 /\ ~inv[c].killed)

\* C9 witness: validation failed on the binary name and the cancel handle
\* was called afterwards
C9_Witness ==
    \E c \in DOMAIN inv :
        /\ inv[c].phase = "invalid"
        /\ inv[c].trace[1].err.kind = "Unexpected binary name"
        /\ Cancels(inv[c].trace) # {}

\* C10: validatePaths reports the first check that fails in the order binary
\* name, binary executable, working directory, and stops there: it makes no
\* file system call of a later check; a blank working directory is not
\* looked up; when every check passes nothing is raised.
C10_FirstFailingCheck ==
    [][\A c \in CallSites :
          InvokeStep(c) =>
            LET raised == IF inv'[c].phase = "invalid"
                          THEN inv'[c].trace[1].err.kind ELSE "none"
                probes == inv'[c].probes
            IN  /\ ~BinaryNameAllowed(settings) =>
                      raised = "Unexpected binary name" /\ probes = <<>>
                /\ (BinaryNameAllowed(settings) /\ ~BinaryRuns(settings)) =>
                      /\ raised = "Binary not found or not executable"
                      /\ probes = <<"accessSync">>
                /\ (BinaryNameAllowed(settings) /\ BinaryRuns(settings)
                        /\ ~WorkDirOk(settings)) =>
                      /\ raised \notin {"none", "Unexpected binary name",
                                        "Binary not found or not executable"}
                      /\ probes = <<"accessSync", "statSync">>
                /\ (BinaryNameAllowed(settings) /\ BinaryRuns(settings)
                        /\ WorkDirOk(settings)) =>
                      /\ raised = "none"
                      /\ probes = IF WorkDirBlank(settings)
                                  THEN <<"accessSync">>
                                  ELSE <<"accessSync", "statSync">>]_vars

\* C10 witness: the working directory check failed after both binary checks
\* passed
C10_Witness ==
    \E c \in DOMAIN inv :
        /\ inv[c].phase = "invalid"
        /\ inv[c].trace[1].err.kind = "Working directory is not a directory"
        /\ inv[c].probes = <<"accessSync", "statSync">>

(* ------------------- the output stream: claims C11..C18 ---------------- *)

\* the texts handed to onChunk, in the order of the calls
ChunkTexts(trace) ==
    LET calls == SelectSeq(trace, LAMBDA e : e.op = "onChunk")
    IN  [k \in 1..Len(calls) |-> calls[k].text]

\* the closure state had all bytes of st.received arrived as one chunk
AtOnce(st) == DataHandler(Idle, st.received)

\* C11: however the bytes the child has written were cut into chunks, the
\* onChunk calls, the captured final text and the captured session token are
\* those of the same bytes arriving as one chunk, so that any two ways of
\* cutting the same output agree.
C11_SplitInvariant ==
    \A c \in DOMAIN inv :
        inv[c].phase = "spawned" =>
            /\ ChunkTexts(inv[c].trace) = ChunkTexts(AtOnce(inv[c]).trace)
            /\ inv[c].finalResult = AtOnce(inv[c]).finalResult
            /\ inv[c].capturedSessionId = AtOnce(inv[c]).capturedSessionId

\* C11 for output of one-byte characters without a null line
C11_AsciiNoNull ==
    \A c \in DOMAIN inv :
        ( /\ inv[c].phase = "spawned"
          /\ \A k \in 1..Len(inv[c].received) :
                 inv[c].received[k] \notin {"C3", "A9", "n"} )
        => /\ ChunkTexts(inv[c].trace) = ChunkTexts(AtOnce(inv[c]).trace)
           /\ inv[c].finalResult = AtOnce(inv[c]).finalResult
           /\ inv[c].capturedSessionId = AtOnce(inv[c]).capturedSessionId

\* this step is a "data" event of the invocation of call site c
DataStep(c) == inv'[c].reads = inv[c].reads + 1

\* the complete lines the handler loops over in a "data" step of c
StepLines(c) ==
    LET raw   == SubSeq(inv'[c].received, Len(inv[c].received) + 1,
                        Len(inv'[c].received))
        lines == Split(inv[c].buffer \o Decode(raw))
    IN  SubSeq(lines, 1, Len(lines) - 1)

\* a line that is not blank and on which JSON.parse throws
Malformed(line) == Trim(line) # <<>> /\ line \notin JsonDocuments

\* a line JSON.parse accepts whose value is neither a text delta nor a
\* result event
Ignorable(line) ==
    /\ Trim(line) # <<>>
    /\ line \in JsonDocuments
    /\ ~IsTextDelta(JSONParse(line))
    /\ JSONParse(line).type # "result"

\* what the caller has been told and what the closure has captured
Outcome(st) ==
    [callbacks |-> SelectSeq(st.trace,
                             LAMBDA e : e.op \in {"onChunk", "onDone", "onError"}),
     finalResult |-> st.finalResult,
     capturedSessionId |-> st.capturedSessionId]

\* C12: in every "data" step the callbacks made and the values captured are
\* those of the same lines with the malformed ones taken out: a line that
\* fails to parse calls neither onError nor onChunk, changes neither the
\* captured text nor the captured token, and the lines after it are
\* processed as they would be without it.
C12_MalformedLineSkipped ==
    [][\A c \in DOMAIN inv :
          DataStep(c) =>
              Outcome(inv'[c]) =
                  Outcome(ProcessLines(inv[c],
                      SelectSeq(StepLines(c), LAMBDA l : ~Malformed(l))))]_vars

C12_Witness ==
    \E c \in DOMAIN inv :
        /\ inv[c].received = <<"x", "\n", "d", "2", "\n">>
        /\ inv[c].reads = 1
        /\ ChunkTexts(inv[c].trace) = <<"t2">>

\* C13: in every "data" step the callbacks made and the values captured are
\* those of the same lines without the lines whose JSON value is neither a
\* text delta nor a result event, null among them: such a line is ignored
\* and the rest of the chunk is processed.
C13_OtherValuesIgnored ==
    [][\A c \in DOMAIN inv :
          DataStep(c) =>
              /\ Outcome(inv'[c]) =
                     Outcome(ProcessLines(inv[c],
                         SelectSeq(StepLines(c), LAMBDA l : ~Ignorable(l))))
              /\ inv'[c].uncaught = inv[c].uncaught]_vars

\* C13 for every such value but null
C13_OtherObjectsIgnored ==
    [][\A c \in DOMAIN inv :
          DataStep(c) =>
              Outcome(inv'[c]) =
                  Outcome(ProcessLines(inv[c],
                      SelectSeq(StepLines(c),
                                LAMBDA l : ~Ignorable(l) \/ Throws(l))))]_vars

\* the fragments of the text delta events among the parsed values, in order
DeltaTexts(parsed) ==
    LET deltas == SelectSeq(parsed, IsTextDelta)
    IN  [k \in 1..Len(deltas) |-> deltas[k].text]

\* onDone is followed by no onChunk
NoChunkAfterDone(trace) ==
    \A i, j \in 1..Len(trace) :
        trace[i].op = "onDone" /\ trace[j].op = "onChunk" => j < i

LastOf(parsed, f, none) ==
    LET has == SelectSeq(parsed, LAMBDA e : e.type = "result" /\ e[f] # Null)
    IN  IF has = <<>> THEN none ELSE has[Len(has)][f]
FirstOf(parsed, f, none) ==
    LET has == SelectSeq(parsed, LAMBDA e : e.type = "result" /\ e[f] # Null)
    IN  IF has = <<>> THEN none ELSE has[1][f]

\* this step calls onDone for the invocation of call site c
DoneStep(c) ==
    Cardinality(At(inv'[c].trace, {"onDone"})) > Cardinality(At(inv[c].trace, {"onDone"}))

\* this step is the "close" event of the child of call site c
CloseStep(c) == inv[c].proc # "closed" /\ inv'[c].proc = "closed"

\* C15: onDone is called only in the step of the "close" event, never in a
\* step that reads a result event; the text it hands over is the result
\* text of the last result event carrying one, or the empty string when no
\* result event carried a text; the session it hands over is null when no
\* result event carried a session id.
C15_DoneOnlyOnClose ==
    /\ [][\A c \in DOMAIN inv : DoneStep(c) => CloseStep(c)]_vars
    /\ [](\A c \in DOMAIN inv :
             \A k \in At(inv[c].trace, {"onDone"}) :
                 /\ inv[c].trace[k].text = LastOf(inv[c].parsed, "result", "")
                 /\ LastOf(inv[c].parsed, "session_id", Null) = Null
                        => inv[c].trace[k].session = Null)

C15_Witness ==
    \E c \in DOMAIN inv :
        /\ Len(inv[c].parsed) = 3
        /\ inv[c].parsed[1] = ResultEvent("R1", "s1")
        /\ inv[c].parsed[2] = ResultEvent("R2", "s2")
        /\ inv[c].parsed[3] = ResultEvent(Null, Null)
        /\ \E k \in At(inv[c].trace, {"onDone"}) : inv[c].trace[k].text = "R2"

\* C16 as stated: the session token handed to onDone is the session id of
\* the first result event that carried one.
C16_FirstSessionDelivered ==
    \A c \in DOMAIN inv :
        \A k \in At(inv[c].trace, {"onDone"}) :
            inv[c].trace[k].session = FirstOf(inv[c].parsed, "session_id", Null)

\* C16 amended: the session token handed to onDone is the session id of the
\* last result event that carried one, null when none did.
C16_LastSessionDelivered ==
    \A c \in DOMAIN inv :
        \A k \in At(inv[c].trace, {"onDone"}) :
            inv[c].trace[k].session = LastOf(inv[c].parsed, "session_id", Null)

C16_Witness ==
    \E c \in DOMAIN inv :
        /\ inv[c].parsed = <<ResultEvent("R1", "s1"), ResultEvent("R2", "s2")>>
        /\ \E k \in At(inv[c].trace, {"onDone"}) : inv[c].trace[k].session = "s2"

C18_OnErrorOnFatal ==
    \A c \in DOMAIN inv :
        ( /\ Cancels(inv[c].trace) = {}
          /\ \/ inv[c].errored
             \/ inv[c].timer = "fired"
             \/ inv[c].proc = "closed" /\ inv[c].exitCode # 0 )
        => At(inv[c].trace, {"onError"}) # {}

(* --------------- command line and message: claims C19, C20 ------------- *)

\* the positions of flag in the argument list a
Positions(a, flag) == { k \in 1..Len(a) : a[k] = flag }

\* flag occurs in a exactly once and value is the argument after it
FlagWithValue(a, flag, value) ==
    /\ Cardinality(Positions(a, flag)) = 1
    /\ \A k \in Positions(a, flag) : k < Len(a) /\ a[k + 1] = value

\* C19: the argument list of every spawned invocation starts with the fixed
\* flags; it holds the budget flag, once and followed by the configured cap,
\* exactly when the cap configured at the call is not zero; it holds the
\* resume flag, once and followed by the token, exactly when the caller
\* supplied a (non-empty) session token.
C19_ArgumentList ==
    [][\A c \in DOMAIN inv :
          InvokeStep(c) /\ inv'[c].phase = "spawned" =>
              LET a   == inv'[c].args
                  sid == inv'[c].request.sessionId
                  cap == settings.maxBudgetUsd
              IN  /\ Len(a) >= 7
                  /\ SubSeq(a, 1, 7) =
                        <<"--print", "--output-format", "stream-json",
                          "--include-partial-messages", "--verbose",
                          "--allowedTools", "Skill">>
                  /\ IF cap # 0
                     THEN FlagWithValue(a, "--max-budget-usd", NumberString(cap))
                     ELSE Positions(a, "--max-budget-usd") = {}
                  /\ IF sid \notin {Null, ""}
                     THEN FlagWithValue(a, "--resume", sid)
                     ELSE Positions(a, "--resume") = {}]_vars

C19_Witness ==
    \E c \in DOMAIN inv :
        /\ inv[c].phase = "spawned"
        /\ inv[c].request.sessionId = "s1"
        /\ inv[c].args =
              <<"--print", "--output-format", "stream-json",
                "--include-partial-messages", "--verbose", "--allowedTools",
                "Skill", "--max-budget-usd", "1", "--resume", "s1">>

\* C20: what a spawned invocation has done to the child's stdin is, at any
\* later time, one write followed by the end of the stream; the data written
\* is a slash, the skill id, two line feeds and the caller's text when a
\* (non-empty) skill id was passed, and the caller's text alone otherwise.
C20_MessageOnStdin ==
    \A c \in DOMAIN inv :
        inv[c].phase = "spawned" =>
            LET r == inv[c].request
            IN  /\ Len(inv[c].stdin) = 2
                /\ inv[c].stdin[1].op = "write"
                /\ inv[c].stdin[2].op = "end"
                /\ inv[c].stdin[1].data =
                      IF r.skillId \notin {Null, ""}
                      THEN <<"/", r.skillId, "\n", "\n">> \o r.text
                      ELSE r.text

C20_Witness ==
    \E c \in DOMAIN inv :
        /\ inv[c].proc = "closed"
        /\ inv[c].request.skillId = "summarize"
        /\ inv[c].stdin[1].data = <<"/", "summarize", "\n", "\n", "\n", "h">>
        /\ inv[c].stdin[2].op = "end"

(* ------------------- the isolation wrapper: claim C21 ----------------- *)

\* the last n elements of a sequence
Suffix(a, n) == SubSeq(a, Len(a) - n + 1, Len(a))

\* C21: what buildIsolatedSpawn returns is decided by the platform, by
\* whether the wrapper binary is executable, by the target binary and by the
\* argument list: systemd-run with the IP-deny property on linux with an
\* executable systemd-run, sandbox-exec with the deny-network profile on
\* darwin with an executable sandbox-exec, and the target binary with its
\* arguments unchanged otherwise; in every case the command line ends with
\* the target binary followed by the arguments in their order.
C21_IsolationWrapper ==
    \A c \in DOMAIN inv :
        inv[c].returned =>
            LET h    == inv[c].host
                bin  == inv[c].claudeBin
                a    == inv[c].claudeArgs
                t    == inv[c].target
                line == <<t.command>> \o t.args
            IN  /\ Suffix(line, Len(a) + 1) = <<bin>> \o a
                /\ CASE h.platform = "linux"
                           /\ "/usr/bin/systemd-run" \in h.executable ->
                          /\ t.command = "/usr/bin/systemd-run"
                          /\ SubSeq(t.args, 1, 6) =
                                <<"--scope", "--user", "--quiet", "-p",
                                  "IPAddressDeny=any", "--">>
                          /\ Len(t.args) = Len(a) + 7
                     [] h.platform = "darwin"
                           /\ "/usr/bin/sandbox-exec" \in h.executable ->
                          /\ t.command = "/usr/bin/sandbox-exec"
                          /\ t.args[1] = "-p"
                          /\ t.args[2] = SandboxProfile
                          /\ t.args[3] = "--"
                          /\ Len(t.args) = Len(a) + 4
                     [] OTHER ->
                          t = SpawnTarget(bin, a)

C21_Witness ==
    \E c \in DOMAIN inv :
        /\ inv[c].returned
        /\ inv[c].host = Host("linux", {"/usr/bin/sandbox-exec"})
        /\ inv[c].target.command = "/opt/claude-code"
        /\ inv[c].target.args = inv[c].claudeArgs
        /\ Len(inv[c].claudeArgs) = 11

(* ------------------- two invocations at once: claim C22 --------------- *)

\* C22: every step (a call, a chunk, a close, an error, a timer expiry or a
\* cancellation of one invocation) changes the closure state, the child and
\* the callbacks of at most one invocation: buffer, captured result, killed
\* flag, timer and callback history of the other stay as they were.
C22_NoSharedState ==
    [][\A c, d \in DOMAIN inv :
          c # d /\ inv'[c] # inv[c] => inv'[d] = inv[d]]_vars

C22_Witness ==
    \E c, d \in DOMAIN inv :
        /\ c # d
        /\ inv[c].killed /\ Cancels(inv[c].trace) # {}
        /\ At(inv[c].trace, {"onDone", "onError"}) = {}
        /\ inv[c].proc = "closed"
        /\ ~inv[d].killed
        /\ inv[d].trace = <<OnDone("R1", "s1")>>

(* ---------------- the panel: claims C23..C26 and C28 ------------------ *)

\* an invocation that is spawned and neither terminated nor killed
Live(st) == st.phase = "spawned" /\ st.proc # "closed" /\ ~st.killed

\* no terminal callback follows a call of the cancel handle
NoTerminalAfterCancel(trace) ==
    \A i, j \in 1..Len(trace) :
        trace[i].op = "cancel" /\ trace[j].op \in {"onDone", "onError"} => j < i

\* C23: in the step that closes the panel (onClose or closeSession) every
\* invocation that is live gets proc.kill() called and its killed flag set;
\* no invocation ever makes a terminal callback after its cancel handle was
\* called; and once closeSession has run, the stored session token, the
\* transcript and the active skill stay cleared.
C23_CloseKillsTheStream ==
    /\ [][panel.open /\ ~panel'.open =>
             \A c \in DOMAIN inv :
                 Live(inv[c]) =>
                     /\ inv'[c].killed
                     /\ Cardinality(Kills(inv'[c].trace)) =
                           Cardinality(Kills(inv[c].trace)) + 1
                     /\ inv'[c].signals = inv[c].signals + 1]_vars
    /\ [](\A c \in DOMAIN inv : NoTerminalAfterCancel(inv[c].trace))
    /\ [](panel.sessionClosed =>
             /\ panel.sessionId = Null
             /\ panel.conversationLog = <<>>
             /\ panel.activeSkillName = Null)

C23_Witness ==
    \E c \in DOMAIN inv :
        /\ panel.sessionClosed
        /\ inv[c].received # <<>>
        /\ inv[c].proc = "closed"
        /\ Cancels(inv[c].trace) # {}
        /\ Terminals(inv[c].trace) = {}
        /\ \E d \in DOMAIN inv : At(inv[d].trace, {"onDone"}) # {}

\* C24: at most one invocation of the panel is live at any time.
C24_OneLiveInvocation ==
    Cardinality({c \in DOMAIN inv : Live(inv[c])}) <= 1

C24_Witness ==
    /\ inv[1].phase = "spawned" /\ inv[1].proc = "running"
    /\ Cancels(inv[1].trace) # {}
    /\ Live(inv[2])
    /\ panel.cancelFn = 2

\* C25: while the panel stays open, a disabled input (isStreaming true) is
\* followed by a state in which isStreaming is false and the input and the
\* send button are enabled.
C25_InputReenabled ==
    (panel.open /\ panel.isStreaming)
        ~> (~panel.open \/ (~panel.isStreaming /\ ~panel.inputDisabled))

C25_Witness ==
    /\ panel.open /\ ~panel.isStreaming /\ ~panel.inputDisabled
    /\ panel.turns = 2
    /\ inv[1].phase = "invalid" \/ inv[1].timer = "fired"
    /\ At(inv[2].trace, {"onDone"}) # {}

\* the invocations 1..n-1 that belong to the conversation invocation n is
\* sent in: those from the last startConversation on
Conversation(invs, n) ==
    { j \in 1..(n - 1) :
        \A k \in (j + 1)..(n - 1) : invs[k].request.skillId = Null }

\* the tokens onDone has delivered for invocation j
TokensOf(st) ==
    { st.trace[k].session :
        k \in { i \in At(st.trace, {"onDone"}) : st.trace[i].session # Null } }

\* the token of the most recent onDone of the conversation that carried one
ReplayedToken(invs, n) ==
    LET with == { j \in Conversation(invs, n) : TokensOf(invs[j]) # {} }
    IN  IF with = {} THEN Null
        ELSE LET last == CHOOSE j \in with : \A i \in with : i <= j
             IN  CHOOSE t \in TokensOf(invs[last]) : TRUE

\* C26: the invocation startConversation starts is sent without a session
\* token; an invocation handleSend starts is sent with the token of the most
\* recent onDone of the same conversation that carried one, and without a
\* token when there was none; turns that ended in an error or in an onDone
\* without a token do not change it.
C26_TokenReplayed ==
    [][panel'.turns = panel.turns + 1 =>
          LET n == panel'.turns
          IN  inv'[n].request.sessionId =
                  IF inv'[n].request.skillId # Null
                  THEN Null
                  ELSE ReplayedToken(inv, n)]_vars

C26_Witness ==
    /\ TokensOf(inv[1]) = {"s1"}
    /\ inv[2].timer = "fired" /\ At(inv[2].trace, {"onError"}) # {}
    /\ inv[3].request.skillId = Null
    /\ inv[3].request.sessionId = "s1"

\* C28: every text fragment in an assistant message came from the
\* invocation the message was created for; every "Claude" entry of the
\* transcript and the stored session token came from an invocation whose
\* cancel handle had not been called.
C28_NoOutputOfCancelledStream ==
    /\ \A m \in 1..MaxTurns :
           \A k \in 1..Len(panel.streamed[m]) : panel.streamed[m][k].from = m
    /\ \A k \in 1..Len(panel.logged) :
           NoTerminalAfterCancel(inv[panel.logged[k]].trace)
    /\ panel.tokenFrom # 0 => NoTerminalAfterCancel(inv[panel.tokenFrom].trace)

\* C28 for the result and the session token alone
C28_NoResultOfCancelledStream ==
    /\ \A k \in 1..Len(panel.logged) :
           NoTerminalAfterCancel(inv[panel.logged[k]].trace)
    /\ panel.tokenFrom # 0 => NoTerminalAfterCancel(inv[panel.tokenFrom].trace)

(* ------------------- the skill toggles: claim C29 --------------------- *)

\* the discovered skills whose latest toggle state is on
ToggledOn(pl) == SelectSeq(pl.skills, LAMBDA s : pl.latest[s])

\* C29: after any sequence of skill toggles that starts from the default
\* empty enabledSkills, getEnabledSkills returns exactly the discovered
\* skills whose latest toggle state is on, a skill never toggled counting
\* as on; in particular a skill toggled off is not returned, also when it
\* was the last enabled one
C29_EnabledAreToggledOn == getEnabledSkills(plugin) = ToggledOn(plugin)

(* ---------------------- the timeout timer: claim C27 ------------------ *)

\* the positions of a trace where onError reports the timeout
TimeoutReports(trace) ==
    { k \in At(trace, {"onError"}) : trace[k].err.kind = "Claude timed out after" }

\* C27: the timeout timer is armed only while the invocation is live: once
\* the child has closed, an "error" event was handled, the timer has fired
\* or the cancel handle was called, the timer is not armed, and no onError
\* of the timer follows onDone, the onError of a process error, or a call
\* of the cancel handle
C27_TimerOnlyWhileLive ==
    \A c \in DOMAIN inv :
        /\ (\/ inv[c].proc = "closed"
            \/ inv[c].errored
            \/ inv[c].timer = "fired"
            \/ Cancels(inv[c].trace) # {})
               => inv[c].timer # "armed"
        /\ \A k \in TimeoutReports(inv[c].trace) :
               \A j \in 1..(k - 1) :
                   inv[c].trace[j].op \notin {"onDone", "onError", "cancel"}

\* C27 witness: an invocation whose timer was armed and then cleared by its
\* "close" handler, having reported onDone and nothing of the timer
C27_Witness ==
    \E c \in DOMAIN inv :
        /\ inv[c].proc = "closed" /\ inv[c].timer = "cleared"
        /\ At(inv[c].trace, {"onDone"}) # {}
        /\ TimeoutReports(inv[c].trace) = {}

(* ----------------- the unterminated last line: claim C30 -------------- *)

\* the lines of the output received that ended in a line feed
TerminatedLines(st) ==
    LET lines == Split(st.received)
    IN  SubSeq(lines, 1, Len(lines) - 1)

\* what the child wrote after its last line feed
Remainder(st) ==
    LET lines == Split(st.received)
    IN  lines[Len(lines)]

\* the values of the JSON documents among the terminated lines
EarlierValues(st) ==
    LET docs == SelectSeq(TerminatedLines(st),
                          LAMBDA l : Trim(l) # <<>> /\ l \in JsonDocuments)
    IN  [k \in 1..Len(docs) |-> JSONParse(docs[k])]

\* C30: when the child closes while the buffer holds an unterminated last
\* line, that remainder is never parsed: the "close" step parses nothing
\* and calls no onChunk, the onChunk calls made are those of the text deltas
\* of the terminated lines, and onDone hands over the text and the session
\* token of the result events of the terminated lines, the empty text and
\* no token when there were none.
C30_RemainderNeverParsed ==
    [][\A c \in DOMAIN inv :
          CloseStep(c) /\ ~inv[c].killed /\ Remainder(inv[c]) # <<>> =>
              LET earlier == EarlierValues(inv[c])
              IN  /\ inv[c].buffer = Remainder(inv[c])
                  /\ inv'[c].parsed = earlier
                  /\ inv'[c].finalResult = LastOf(earlier, "result", "")
                  /\ inv'[c].capturedSessionId = LastOf(earlier, "session_id", Null)
                  /\ ChunkTexts(inv'[c].trace)
                       = SelectSeq(DeltaTexts(earlier), LAMBDA t : t # "")
                  /\ inv'[c].trace =
                       Append(inv[c].trace,
                              OnDone(LastOf(earlier, "result", ""),
                                     LastOf(earlier, "session_id", Null)))]_vars

\* C30 witness: the child wrote a result line and then a second result
\* document without line feed and closed; onDone reported the first
C30_Witness ==
    \E c \in DOMAIN inv :
        /\ inv[c].proc = "closed"
        /\ inv[c].received = <<"r", "1", "\n", "r", "2">>
        /\ inv[c].buffer = <<"r", "2">>
        /\ inv[c].trace[Len(inv[c].trace)] = OnDone("R1", "s1")

\* C30 witness: the child wrote only a text delta without line feed and
\* closed; no onChunk was made and onDone reported the empty text, no token
C30_WitnessDelta ==
    \E c \in DOMAIN inv :
        /\ inv[c].proc = "closed"
        /\ inv[c].received = <<"d", "2">>
        /\ inv[c].trace = <<OnDone("", Null)>>

(* --------------------- the editor menu: claim C31 --------------------- *)

\* C31: the editor menu opened on a non-empty selection lists exactly the
\* skills enabled in the settings at the time it is opened, also after
\* toggles made in the settings tab since the plugin loaded
C31_MenuShowsEnabledSkills ==
    plugin.menu.open /\ Len(Trim(plugin.menu.selected)) > 0 =>
        plugin.menu.items = getEnabledSkills(plugin)

(* ------------------ the binary found on first load: claim C32 --------- *)

\* the positions of the candidates that are executable on the machine host
ExecutableAt(host) ==
    { k \in 1..Len(Candidates(host.platform)) :
          Candidates(host.platform)[k] \in host.executable }

\* the first candidate, in list order, that is executable, or the empty
\* string when none is
FirstInOrder(host) ==
    IF ExecutableAt(host) = {} THEN <<>>
    ELSE Candidates(host.platform)[
             CHOOSE k \in ExecutableAt(host) : \A j \in ExecutableAt(host) : k <= j]

\* C32: detectClaudeBinary returns the first candidate in list order that
\* is executable, or the empty string when none is, and on every platform a
\* path it returned has a base name of the allow-list, so that validatePaths
\* does not reject the path onload stored as an unexpected binary name
C32_DetectedBinaryAccepted ==
    \A c \in DOMAIN inv :
        inv[c].returned /\ inv[c].detected # <<>> =>
            /\ inv[c].detected = FirstInOrder(inv[c].host)
            /\ settings.claudeBinPath = inv[c].detected
            /\ Includes(VALID_BINARY_NAMES, Basename(inv[c].detected))
            /\ validatePaths(settings).error.kind # "Unexpected binary name"

\* C32, the order of the probes alone: what detectClaudeBinary returned is
\* the first executable candidate, and a binary path still empty after
\* onload means that no candidate is executable
C32_FirstExecutableReturned ==
    \A c \in DOMAIN inv :
        inv[c].returned =>
            /\ inv[c].detected # <<>> =>
                   /\ inv[c].detected = FirstInOrder(inv[c].host)
                   /\ settings.claudeBinPath = inv[c].detected
            /\ settings.claudeBinPath = <<>> => ExecutableAt(inv[c].host) = {}

=============================================================================
